---- MODULE Spec2Model ----
(***************************************************************************)
(* Model of theme-sync (src/src/main.rs): the monitor loop, the one-shot   *)
(* command, the fan-out over the configured applications, the per-app      *)
(* Configurator and the token substitution in the application's file.      *)
(* Text is a sequence of one-character strings.                            *)
(***************************************************************************)
EXTENDS Integers, Sequences, FiniteSets, TLC

VARIABLES
    mode,        \* "monitor" | "set" (CommandKind), "apply" | "infer" for the unit harnesses
    pc,          \* position of the program
    config,      \* Config.apps: sequence of AppConfig records
    env,         \* the process environment: SNAP_REAL_HOME and HOME
    files,       \* content of every file, by resolved path <<home, path>>
    theme,       \* the ThemePreference being applied
    line,        \* the text last handed to infer_theme
    idx,         \* apply_all: index of the app whose Configurator runs next
    result,      \* what main returns: NoVal while running, "Ok", or an error kind
    child,       \* the gsettings monitor subprocess: "none" | "running" | "reaped"
    override,    \* set_once: the --theme override, NoVal when absent
    linesRead,   \* number of lines taken from the monitor's stdout
    fanouts,     \* number of apply_all calls started
    active,      \* ids of the apply_all calls in progress
    prevTheme,   \* theme of the previous apply_all call
    queries,     \* number of `gsettings get` runs
    trace,       \* file and reload operations of the current apply_all, in order
    snap,        \* files as they were when the current apply_all started
    hist,        \* records of the most recent Configurator::apply calls
    lastReload,  \* outcome of the reload of the last Configurator::apply
    calls,       \* number of Configurator::apply calls so far
    envChanges   \* number of changes made to the environment

vars == <<mode, pc, config, env, files, theme, line, idx, result, child, override,
          linesRead, fanouts, active, prevTheme, queries, trace, snap, hist,
          lastReload, calls, envChanges>>

NoVal == "none"

----------------------------------------------------------------------------
(* Bounds *)

MaxApps == 3          \* longest configuration
MaxLines == 2         \* lines the preference source emits before it closes
MaxEnvChanges == 1    \* environment changes during one run
MaxWritten == 1       \* characters a failing write leaves behind at most
MaxTokLen == 2        \* longest token of the substitution harness
MaxContentLen == 3    \* longest initial file of the substitution harness
MaxCalls == 3         \* Configurator::apply calls of the substitution harness

----------------------------------------------------------------------------
(* Text *)

Alphabet == {"a", "b"}

StringsUpTo(n) == UNION {[1..k -> Alphabet] : k \in 0..n}

Min(a, b) == IF a < b THEN a ELSE b

IsPrefix(p, s) == Len(p) <= Len(s) /\ SubSeq(s, 1, Len(p)) = p

\* str::contains: scan for the pattern from the left
RECURSIVE contains(_, _)
contains(s, pat) ==
    IF IsPrefix(pat, s) THEN TRUE
    ELSE IF s = <<>> THEN FALSE
    ELSE contains(Tail(s), pat)

\* str::replace with a non-empty pattern: leftmost, non-overlapping matches
RECURSIVE ReplaceMatches(_, _, _)
ReplaceMatches(s, from, to) ==
    IF Len(s) < Len(from) THEN s
    ELSE IF IsPrefix(from, s)
         THEN to \o ReplaceMatches(SubSeq(s, Len(from) + 1, Len(s)), from, to)
         ELSE <<Head(s)>> \o ReplaceMatches(Tail(s), from, to)

\* str::replace with the empty pattern: it matches at every character boundary
RECURSIVE ReplaceBoundaries(_, _)
ReplaceBoundaries(s, to) ==
    IF s = <<>> THEN to
    ELSE to \o <<Head(s)>> \o ReplaceBoundaries(Tail(s), to)

replace(s, from, to) ==
    IF from = <<>> THEN ReplaceBoundaries(s, to) ELSE ReplaceMatches(s, from, to)

\* An occurrence of pat in s, stated by position
Occurs(pat, s) ==
    \E i \in 1..(Len(s) + 1) :
        i + Len(pat) - 1 <= Len(s) /\ SubSeq(s, i, i + Len(pat) - 1) = pat

----------------------------------------------------------------------------
(* Preference text *)

Marker == <<"p","r","e","f","e","r","-","d","a","r","k">>

Fragments ==
    { <<>>,
      Marker,
      <<"p","r","e","f","e","r","-">>,
      <<"d","a","r","k">>,
      <<"p","r","e","f","e","r","-","l","i","g","h","t">>,
      <<"P","R","E","F","E","R","-","D","A","R","K">>,
      <<"'">> }

\* texts of the normalizer harness
InferLines == {x \o y \o z : x, y, z \in Fragments}

Key == <<"c","o","l","o","r","-","s","c","h","e","m","e",":"," ">>

\* lines of `gsettings monitor org.gnome.desktop.interface color-scheme`
MonitorLines ==
    { Key \o <<"'">> \o Marker \o <<"'">>,
      Key \o <<"'">> \o <<"d","e","f","a","u","l","t">> \o <<"'">> }

Themes == {"Dark", "Light"}

\* variant: only a text that starts with the marker counts as dark
infer_theme_prefix(input) ==
    IF IsPrefix(Marker, input) THEN "Dark" ELSE "Light"

infer_theme(input) ==
    IF contains(input, Marker) THEN "Dark" ELSE "Light"

----------------------------------------------------------------------------
(* Configuration, environment and files *)

Homes == {"h1", "h2"}
Paths == {"p1", "p2"}
FullPaths == Homes \X Paths

AppCatalogue ==
    { [name |-> "term", path |-> "p1", light_token |-> <<"a">>,
       dark_token |-> <<"b">>, reload_cmd |-> "cmd"],
      [name |-> "edit", path |-> "p2", light_token |-> <<"a">>,
       dark_token |-> <<"a", "b">>, reload_cmd |-> NoVal],
      [name |-> "bar", path |-> "p1", light_token |-> <<"b">>,
       dark_token |-> <<"b">>, reload_cmd |-> "cmd"] }

Injective(s) == \A i, j \in 1..Len(s) : s[i] = s[j] => i = j

Configs ==
    UNION { {s \in [1..n -> AppCatalogue] : Injective(s)} : n \in 0..MaxApps }

InitContents == { <<"a">>, <<"a", "b">> }

\* SNAP_REAL_HOME, when set, is h1; HOME, when set, is h2
Envs == [SNAP_REAL_HOME : {NoVal, "h1"}, HOME : {NoVal, "h2"}]

\* variant: HOME is looked up first
ResolveHome_prefers_HOME(e) ==
    IF e.HOME # NoVal THEN e.HOME ELSE e.SNAP_REAL_HOME

\* variant: with neither variable set the lookup falls back to a default home
ResolveHome_default(e) ==
    IF e.SNAP_REAL_HOME # NoVal THEN e.SNAP_REAL_HOME
    ELSE IF e.HOME # NoVal THEN e.HOME ELSE "h2"

\* std::env::var("SNAP_REAL_HOME").or_else(|_| std::env::var("HOME"))
ResolveHome(e) ==
    IF e.SNAP_REAL_HOME # NoVal THEN e.SNAP_REAL_HOME ELSE e.HOME

ReadOutcomes == {"ok", "err"}
WriteOutcomes == {"ok", "err"}
RunOutcomes == {"ok", "nonzero", "spawnfail"}
WrittenLens == -1..MaxWritten

----------------------------------------------------------------------------
(* The substitution engine, the reload trigger and the Configurator *)

\* What fs::write leaves in the file when it fails: the old content when the
\* file could not be opened (k < 0), else the first k characters of the new one.
PartialWrite(contents, replaced, k) ==
    IF k < 0 THEN contents
    ELSE SubSeq(replaced, 1, Min(k, IF replaced = <<>> THEN 0 ELSE Len(replaced) - 1))

\* variant: the file is written back whenever the pattern occurs in it
replace_in_file_writes_on_match(fs, path, from, to, rd, wr, k) ==
    IF rd = "err"
    THEN [res |-> "FileRead", fs |-> fs, ops |-> <<"read">>]
    ELSE LET contents == fs[path]
             replaced == replace(contents, from, to)
         IN  IF contains(contents, from)
             THEN IF wr = "ok"
                  THEN [res |-> "Ok", fs |-> [fs EXCEPT ![path] = replaced],
                        ops |-> <<"read", "write">>]
                  ELSE [res |-> "FileWrite",
                        fs |-> [fs EXCEPT ![path] = PartialWrite(contents, replaced, k)],
                        ops |-> <<"read", "write">>]
             ELSE [res |-> "Ok", fs |-> fs, ops |-> <<"read">>]

\* variant: the file is written back whether or not the text changed
replace_in_file_always_writes(fs, path, from, to, rd, wr, k) ==
    IF rd = "err"
    THEN [res |-> "FileRead", fs |-> fs, ops |-> <<"read">>]
    ELSE LET contents == fs[path]
             replaced == replace(contents, from, to)
         IN  IF wr = "ok"
             THEN [res |-> "Ok", fs |-> [fs EXCEPT ![path] = replaced],
                   ops |-> <<"read", "write">>]
             ELSE [res |-> "FileWrite",
                   fs |-> [fs EXCEPT ![path] = PartialWrite(contents, replaced, k)],
                   ops |-> <<"read", "write">>]

\* replace_in_file: the new file system, the operations performed, the result
replace_in_file(fs, path, from, to, rd, wr, k) ==
    IF rd = "err"
    THEN [res |-> "FileRead", fs |-> fs, ops |-> <<"read">>]
    ELSE LET contents == fs[path]
             replaced == replace(contents, from, to)
         IN  IF replaced # contents
             THEN IF wr = "ok"
                  THEN [res |-> "Ok", fs |-> [fs EXCEPT ![path] = replaced],
                        ops |-> <<"read", "write">>]
                  ELSE [res |-> "FileWrite",
                        fs |-> [fs EXCEPT ![path] = PartialWrite(contents, replaced, k)],
                        ops |-> <<"read", "write">>]
             ELSE [res |-> "Ok", fs |-> fs, ops |-> <<"read">>]

\* run_command: Ok when bash ran and exited with success
run_command(rl) == IF rl = "ok" THEN "Ok" ELSE "Err"

\* Configurator::apply after run_command returned st: an Err is logged as a
\* warning and apply returns Ok(())
ReloadOutcome_propagated(st) == IF st = "Err" THEN "Reload" ELSE "Ok"

ReloadOutcome(st) == "Ok"

\* the (from, to) pair of Configurator::apply
FromTo(app, th) ==
    IF th = "Dark" THEN <<app.light_token, app.dark_token>>
    ELSE <<app.dark_token, app.light_token>>

\* variant: the reload command is run only when the file was written
apply_reload_on_change(i, th, rd, wr, k, rl) ==
    LET app  == config[i]
        ft   == FromTo(app, th)
        home == ResolveHome(env)
    IN  IF home = NoVal
        THEN [res |-> "EnvironmentMissing", fs |-> files, ops |-> <<>>,
              path |-> NoVal, reload |-> NoVal, warned |-> FALSE]
        ELSE LET path == <<home, app.path>>
                 r == replace_in_file(files, path, ft[1], ft[2], rd, wr, k)
             IN  IF r.res # "Ok"
                 THEN [res |-> r.res, fs |-> r.fs, ops |-> r.ops,
                       path |-> path, reload |-> NoVal, warned |-> FALSE]
                 ELSE IF app.reload_cmd # NoVal /\ r.ops = <<"read", "write">>
                      THEN [res |-> ReloadOutcome(run_command(rl)),
                            fs |-> r.fs, ops |-> r.ops \o <<"reload">>,
                            path |-> path, reload |-> rl,
                            warned |-> run_command(rl) = "Err"]
                      ELSE [res |-> "Ok", fs |-> r.fs, ops |-> r.ops,
                            path |-> path, reload |-> NoVal, warned |-> FALSE]

\* Configurator::apply for app i: result, new file system, operations, and the
\* outcome of the reload command ("warned" when its failure was logged)
apply(i, th, rd, wr, k, rl) ==
    LET app  == config[i]
        ft   == FromTo(app, th)
        home == ResolveHome(env)
    IN  IF home = NoVal
        THEN [res |-> "EnvironmentMissing", fs |-> files, ops |-> <<>>,
              path |-> NoVal, reload |-> NoVal, warned |-> FALSE]
        ELSE LET path == <<home, app.path>>
                 r == replace_in_file(files, path, ft[1], ft[2], rd, wr, k)
             IN  IF r.res # "Ok"
                 THEN [res |-> r.res, fs |-> r.fs, ops |-> r.ops,
                       path |-> path, reload |-> NoVal, warned |-> FALSE]
                 ELSE IF app.reload_cmd # NoVal
                      THEN [res |-> ReloadOutcome(run_command(rl)),
                            fs |-> r.fs, ops |-> r.ops \o <<"reload">>,
                            path |-> path, reload |-> rl,
                            warned |-> run_command(rl) = "Err"]
                      ELSE [res |-> "Ok", fs |-> r.fs, ops |-> r.ops,
                            path |-> path, reload |-> NoVal, warned |-> FALSE]

\* the events apply adds to the trace
Events(i, r) == [n \in 1..Len(r.ops) |-> [app |-> i, op |-> r.ops[n], path |-> r.path]]

\* the record of one Configurator::apply call
CallRecord(i, th, r) ==
    [app |-> i, theme |-> th, path |-> r.path,
     before |-> IF r.path = NoVal THEN <<>> ELSE files[r.path],
     after  |-> IF r.path = NoVal THEN <<>> ELSE r.fs[r.path],
     from |-> FromTo(config[i], th)[1], to |-> FromTo(config[i], th)[2],
     ops |-> r.ops, res |-> r.res]

\* the harness keeps the record of every call, a run of the program the last one
Keep(h) == IF mode = "apply" THEN h ELSE <<h[Len(h)]>>

\* the effect of one Configurator::apply call on the files and on the records
Applied(i, th, r) ==
    /\ files' = r.fs
    /\ trace' = trace \o Events(i, r)
    /\ hist' = Keep(Append(hist, CallRecord(i, th, r)))
    /\ lastReload' = [outcome |-> r.reload, warned |-> r.warned]
    /\ calls' = calls + 1

----------------------------------------------------------------------------
(* apply_all *)

\* where control goes when apply_all returns Ok
Returned ==
    IF mode = "monitor"
    THEN pc' = "listening" /\ result' = result
    ELSE pc' = "terminated" /\ result' = "Ok"

\* apply_all is entered with theme th; with no apps it returns at once
StartFanout(th) ==
    /\ theme' = th
    /\ prevTheme' = theme
    /\ fanouts' = fanouts + 1
    /\ snap' = files
    /\ trace' = <<>>
    /\ idx' = 1
    /\ IF config = <<>>
       THEN active' = active /\ Returned
       ELSE active' = active \cup {fanouts + 1} /\ pc' = "applying" /\ result' = result
    /\ UNCHANGED <<files, hist, lastReload, calls>>

\* variant: a best-effort batch, which goes on with the remaining apps after an
\* Err and returns the first Err at the end
AfterApply_best_effort(r) ==
    LET err == IF result # NoVal THEN result ELSE IF r.res # "Ok" THEN r.res ELSE NoVal
    IN  IF idx = Len(config)
        THEN /\ active' = active \ {fanouts}
             /\ idx' = idx
             /\ IF err = NoVal THEN Returned
                ELSE pc' = "terminated" /\ result' = err
        ELSE active' = active /\ idx' = idx + 1 /\ pc' = pc /\ result' = err

\* variant: the monitor loop logs an Err of apply_all and keeps listening
AfterApply_keeps_listening(r) ==
    IF r.res = "Ok"
    THEN IF idx = Len(config)
         THEN active' = active \ {fanouts} /\ idx' = idx /\ Returned
         ELSE active' = active /\ idx' = idx + 1 /\ pc' = pc /\ result' = result
    ELSE /\ active' = active \ {fanouts}
         /\ idx' = idx
         /\ IF mode = "monitor"
            THEN pc' = "listening" /\ result' = result
            ELSE pc' = "terminated" /\ result' = r.res

\* variant: an app whose file could not be read or written is tried a second time
AfterApply_retry(r) ==
    IF r.res = "Ok"
    THEN IF idx = Len(config)
         THEN active' = active \ {fanouts} /\ idx' = idx /\ Returned
         ELSE active' = active /\ idx' = idx + 1 /\ pc' = pc /\ result' = result
    ELSE IF r.ops # <<>> /\ \A n \in 1..Len(trace) : trace[n].app # idx
         THEN active' = active /\ idx' = idx /\ pc' = pc /\ result' = result
         ELSE /\ active' = active \ {fanouts}
              /\ idx' = idx
              /\ pc' = "terminated"
              /\ result' = r.res

\* the `?` after Configurator::apply returned r: an Err leaves apply_all and its
\* caller at once, an Ok goes on with the next app or returns from apply_all
AfterApply(r) ==
    IF r.res = "Ok"
    THEN IF idx = Len(config)
         THEN active' = active \ {fanouts} /\ idx' = idx /\ Returned
         ELSE active' = active /\ idx' = idx + 1 /\ pc' = pc /\ result' = result
    ELSE /\ active' = active \ {fanouts}
         /\ idx' = idx
         /\ pc' = "terminated"
         /\ result' = r.res

\* one iteration of the loop of apply_all: Configurator::new(app).apply(theme)?
ApplyNext ==
    /\ pc = "applying"
    /\ idx <= Len(config)
    /\ \E rd \in ReadOutcomes, wr \in WriteOutcomes, k \in WrittenLens, rl \in RunOutcomes :
         LET r == apply(idx, theme, rd, wr, k, rl) IN
         /\ Applied(idx, theme, r)
         /\ AfterApply(r)
    /\ UNCHANGED <<mode, config, env, theme, line, child, override, linesRead,
                   fanouts, prevTheme, queries, snap, envChanges>>

----------------------------------------------------------------------------
(* monitor_theme_changes *)

\* Command::new("gsettings").args(["monitor", ...]).spawn()?
MonitorSpawn ==
    /\ mode = "monitor" /\ pc = "start"
    /\ \E ok \in BOOLEAN :
         IF ok THEN child' = "running" /\ pc' = "listening" /\ result' = result
         ELSE child' = child /\ pc' = "terminated" /\ result' = "SubprocessSpawn"
    /\ UNCHANGED <<mode, config, env, files, theme, line, idx, override, linesRead,
                   fanouts, active, prevTheme, queries, trace, snap, hist,
                   lastReload, calls, envChanges>>

\* variant: a line is taken while the previous one is still being applied
CanReadLine_concurrent == pc \in {"listening", "applying"}

\* the loop takes its next line only between two iterations
CanReadLine == pc = "listening"

\* variant: a line whose theme equals the previous one is dropped
ReadLine_debounced ==
    /\ mode = "monitor" /\ CanReadLine
    /\ linesRead < MaxLines
    /\ \E l \in MonitorLines :
         /\ line' = l
         /\ linesRead' = linesRead + 1
         /\ IF infer_theme(l) = theme
            THEN UNCHANGED <<theme, prevTheme, fanouts, snap, trace, idx, active, pc,
                             result, files, hist, lastReload, calls>>
            ELSE StartFanout(infer_theme(l))
    /\ UNCHANGED <<mode, config, env, child, override, queries, envChanges>>

\* for line in reader.lines(): a line arrives, is normalized and fanned out
ReadLine ==
    /\ mode = "monitor" /\ CanReadLine
    /\ linesRead < MaxLines
    /\ \E l \in MonitorLines :
         /\ line' = l
         /\ linesRead' = linesRead + 1
         /\ StartFanout(infer_theme(l))
    /\ UNCHANGED <<mode, config, env, child, override, queries, envChanges>>

\* let line = line?; reading the pipe fails or the bytes are not UTF-8
ReadLineError ==
    /\ mode = "monitor" /\ pc = "listening"
    /\ pc' = "terminated"
    /\ result' = "LineRead"
    /\ UNCHANGED <<mode, config, env, files, theme, line, idx, child, override,
                   linesRead, fanouts, active, prevTheme, queries, trace, snap,
                   hist, lastReload, calls, envChanges>>

\* variant: the loop does not notice the end of the stream and keeps waiting
EndOfStream_keeps_waiting ==
    /\ mode = "monitor" /\ pc = "listening"
    /\ UNCHANGED vars

\* the source closed its output: the loop ends and child.wait()? runs
EndOfStream ==
    /\ mode = "monitor" /\ pc = "listening"
    /\ \E ok \in BOOLEAN :
         IF ok THEN child' = "reaped" /\ result' = "Ok"
         ELSE child' = child /\ result' = "Wait"
    /\ pc' = "terminated"
    /\ UNCHANGED <<mode, config, env, files, theme, line, idx, override,
                   linesRead, fanouts, active, prevTheme, queries, trace, snap,
                   hist, lastReload, calls, envChanges>>

----------------------------------------------------------------------------
(* set_once *)

QueryOutcomes == {"ok", "spawnfail", "nonzero", "badutf8"}

\* outputs of `gsettings get org.gnome.desktop.interface color-scheme`
QueryOutputs ==
    { <<"'">> \o Marker \o <<"'">>,
      <<"'">> \o <<"d","e","f","a","u","l","t">> \o <<"'">> }

\* variant: the query is run although an override was given
set_once_queries_always ==
    /\ mode = "set" /\ pc = "start"
    /\ \E q \in QueryOutcomes, out \in QueryOutputs :
         /\ queries' = queries + 1
         /\ IF q = "ok"
            THEN /\ line' = out
                 /\ StartFanout(IF override # NoVal THEN override ELSE infer_theme(out))
            ELSE /\ pc' = "terminated"
                 /\ result' = CASE q = "spawnfail" -> "SubprocessSpawn"
                                 [] q = "nonzero"   -> "QueryFailed"
                                 [] OTHER           -> "Utf8Decode"
                 /\ UNCHANGED <<line, theme, prevTheme, fanouts, snap, trace, idx,
                                active, files, hist, lastReload, calls>>
    /\ UNCHANGED <<mode, config, env, child, override, linesRead, envChanges>>

set_once ==
    /\ mode = "set" /\ pc = "start"
    /\ IF override # NoVal
       THEN /\ StartFanout(override)
            /\ UNCHANGED <<line, queries>>
       ELSE \E q \in QueryOutcomes, out \in QueryOutputs :
              /\ queries' = queries + 1
              /\ IF q = "ok"
                 THEN line' = out /\ StartFanout(infer_theme(out))
                 ELSE /\ pc' = "terminated"
                      /\ result' = CASE q = "spawnfail" -> "SubprocessSpawn"
                                      [] q = "nonzero"   -> "QueryFailed"
                                      [] OTHER           -> "Utf8Decode"
                      /\ UNCHANGED <<line, theme, prevTheme, fanouts, snap, trace, idx,
                                     active, files, hist, lastReload, calls>>
    /\ UNCHANGED <<mode, config, env, child, override, linesRead, envChanges>>

----------------------------------------------------------------------------
(* The environment *)

\* one of SNAP_REAL_HOME and HOME is set or unset between two lookups of the program
EnvChange ==
    /\ pc \in {"listening", "applying"}
    /\ envChanges < MaxEnvChanges
    /\ \E e \in Envs :
         /\ (e.SNAP_REAL_HOME = env.SNAP_REAL_HOME) # (e.HOME = env.HOME)
         /\ env' = e
    /\ envChanges' = envChanges + 1
    /\ UNCHANGED <<mode, pc, config, files, theme, line, idx, result, child, override,
                   linesRead, fanouts, active, prevTheme, queries, trace, snap,
                   hist, lastReload, calls>>

----------------------------------------------------------------------------
(* The program: main *)

Fresh ==
    /\ theme = NoVal /\ prevTheme = NoVal /\ line = <<>>
    /\ idx = 1 /\ result = NoVal /\ child = "none"
    /\ linesRead = 0 /\ fanouts = 0 /\ active = {} /\ queries = 0
    /\ trace = <<>> /\ snap = files /\ hist = <<>>
    /\ lastReload = [outcome |-> NoVal, warned |-> FALSE]
    /\ calls = 0 /\ envChanges = 0

Init ==
    /\ mode \in {"monitor", "set"}
    /\ pc = "start"
    /\ config \in Configs
    /\ env \in Envs
    /\ \E c \in [Paths -> InitContents] : files = [fp \in FullPaths |-> c[fp[2]]]
    /\ override \in (IF mode = "set" THEN Themes \cup {NoVal} ELSE {NoVal})
    /\ Fresh

Next ==
    \/ MonitorSpawn
    \/ ReadLine
    \/ ReadLineError
    \/ EndOfStream
    \/ set_once
    \/ ApplyNext
    \/ EnvChange

Spec == Init /\ [][Next]_vars

\* what the blocking read of reader.lines() returns when the source emits a
\* line or closes its output
SourceStep == ReadLine \/ EndOfStream

\* main with the monitor subcommand, every file holding the same text
InitMonitor ==
    /\ mode = "monitor"
    /\ pc = "start"
    /\ config \in Configs
    /\ env \in Envs
    /\ files = [fp \in FullPaths |-> <<"a">>]
    /\ override = NoVal
    /\ Fresh

NextMonitor ==
    \/ MonitorSpawn
    \/ ReadLine
    \/ ReadLineError
    \/ EndOfStream
    \/ ApplyNext
    \/ EnvChange

\* The program runs whenever it can, and the source does not stay silent for
\* ever with its output open.
FairSpec ==
    /\ InitMonitor /\ [][NextMonitor]_vars
    /\ WF_vars(MonitorSpawn)
    /\ WF_vars(ApplyNext)
    /\ WF_vars(SourceStep)

----------------------------------------------------------------------------
(* Harness of Configurator::apply: one app, any tokens, any file *)

Tokens == StringsUpTo(MaxTokLen)

\* a call of Configurator::apply on a file that can be read and written
HarnessApply ==
    /\ mode = "apply" /\ pc = "harness"
    /\ calls < MaxCalls
    /\ \E th \in Themes :
         /\ Applied(1, th, apply(1, th, "ok", "ok", 0, "ok"))
         /\ theme' = th
    /\ UNCHANGED <<mode, pc, config, env, line, idx, result, child, override,
                   linesRead, fanouts, active, prevTheme, queries, snap, envChanges>>

InitApply ==
    /\ mode = "apply"
    /\ pc = "harness"
    /\ \E l \in Tokens, d \in Tokens :
         config = << [name |-> "app", path |-> "p1", light_token |-> l,
                      dark_token |-> d, reload_cmd |-> NoVal] >>
    /\ env = [SNAP_REAL_HOME |-> NoVal, HOME |-> "h2"]
    /\ \E c \in StringsUpTo(MaxContentLen) :
         files = [fp \in FullPaths |-> IF fp = <<"h2", "p1">> THEN c ELSE <<>>]
    /\ override = NoVal
    /\ Fresh

NextApply == HarnessApply

SpecApply == InitApply /\ [][NextApply]_vars

----------------------------------------------------------------------------
(* Harness of infer_theme: any text *)

HarnessInfer ==
    /\ mode = "infer" /\ pc = "harness"
    /\ \E l \in InferLines :
         /\ line' = l
         /\ theme' = infer_theme(l)
    /\ UNCHANGED <<mode, pc, config, env, files, idx, result, child, override,
                   linesRead, fanouts, active, prevTheme, queries, trace, snap,
                   hist, lastReload, calls, envChanges>>

InitInfer ==
    /\ mode = "infer"
    /\ pc = "harness"
    /\ config = <<>>
    /\ env = [SNAP_REAL_HOME |-> NoVal, HOME |-> "h2"]
    /\ files = [fp \in FullPaths |-> <<>>]
    /\ override = NoVal
    /\ Fresh

NextInfer == HarnessInfer

SpecInfer == InitInfer /\ [][NextInfer]_vars

----------------------------------------------------------------------------
(* Properties *)

Last == hist[Len(hist)]

HasOp(c, op) == \E n \in 1..Len(c.ops) : c.ops[n] = op

Wrote(c) == HasOp(c, "write")

EventsOf(j) == {n \in 1..Len(trace) : trace[n].app = j}

Did(j, op) == \E n \in EventsOf(j) : trace[n].op = op

\* the last Configurator::apply call belongs to the current apply_all
LastInTrace == trace # <<>> /\ trace[Len(trace)].app = Last.app

ApplyErrors == {"EnvironmentMissing", "FileRead", "FileWrite"}

EnvUnset == env.SNAP_REAL_HOME = NoVal /\ env.HOME = NoVal

\* C1: two successive Configurator::apply calls with the same theme (the same
\* from and to of replace_in_file) on the same file: the second leaves the
\* content the first one left, and performs no write. Stated for a non-empty
\* `from`, the ordinary case of the claim.
SubstitutionIdempotent ==
    \A n \in 2..Len(hist) :
        (/\ hist[n].from # <<>>
         /\ hist[n].theme = hist[n-1].theme
         /\ hist[n].path = hist[n-1].path
         /\ hist[n-1].res = "Ok" /\ hist[n].res = "Ok")
        => (hist[n].after = hist[n-1].after /\ ~Wrote(hist[n]))

\* C2: with distinct tokens L and D and a file that contains L, apply(Dark)
\* leaves a file with D and without L; a following apply(Light) leaves a file
\* with L and without D; a further apply(Light) changes and writes nothing.
\* Stated for non-empty tokens, the ordinary case of the claim.
DirectionalCorrectness ==
    LET L == config[1].light_token
        D == config[1].dark_token
        Start(n) == /\ hist[n].theme = "Dark" /\ hist[n].res = "Ok"
                    /\ Occurs(L, hist[n].before)
    IN  (mode = "apply" /\ L # D /\ L # <<>> /\ D # <<>>) =>
        \A n \in 1..Len(hist) :
            Start(n) =>
              /\ Occurs(D, hist[n].after) /\ ~Occurs(L, hist[n].after)
              /\ (n + 1 <= Len(hist) /\ hist[n+1].theme = "Light" /\ hist[n+1].res = "Ok")
                 => /\ Occurs(L, hist[n+1].after) /\ ~Occurs(D, hist[n+1].after)
                    /\ (n + 2 <= Len(hist) /\ hist[n+2].theme = "Light"
                        /\ hist[n+2].res = "Ok")
                       => (hist[n+2].after = hist[n+2].before /\ ~Wrote(hist[n+2]))

\* C3: when the Configurator of app k is the first to fail in apply_all, the
\* program ends with that error, apps 1..k-1 were read and reloaded, no
\* operation of an app after k is in the trace, and files no operation named
\* are as they were when apply_all started.
BatchFailFast ==
    /\ (calls > 0 /\ Last.res # "Ok") => (pc = "terminated" /\ result = Last.res)
    /\ (pc = "terminated" /\ result \in ApplyErrors) =>
          LET k == Last.app IN
          /\ Last.res = result
          /\ \A j \in 1..(k - 1) :
                Did(j, "read") /\ (config[j].reload_cmd # NoVal => Did(j, "reload"))
          /\ \A j \in (k + 1)..Len(config) : EventsOf(j) = {}
          /\ \A fp \in FullPaths :
                (\A n \in 1..Len(trace) : trace[n].path # fp) => files[fp] = snap[fp]

BatchFailFastWitness ==
    /\ pc = "terminated" /\ result = "FileRead"
    /\ Len(config) = 3 /\ Last.app = 2
    /\ Did(1, "read")

\* C4: a Configurator::apply that ran its reload command returned Ok whatever
\* the command did; apply_all goes on with the next app, and after the last
\* app the monitor keeps listening (it can end only by the end of the stream
\* or a failed line read) and the one-shot command ends with Ok.
ReloadIsolation ==
    (calls > 0 /\ HasOp(Last, "reload") /\ LastInTrace) =>
        /\ Last.res = "Ok"
        /\ result \notin (ApplyErrors \cup {"Reload"})
        /\ Last.app < Len(config) => (pc = "applying" /\ idx = Last.app + 1)
        /\ (Last.app = Len(config) /\ mode = "monitor") =>
              \/ pc = "listening"
              \/ pc = "terminated" /\ result \in {"Ok", "Wait", "LineRead"}
        /\ (Last.app = Len(config) /\ mode = "set") =>
              (pc = "terminated" /\ result = "Ok")

ReloadIsolationWitness ==
    /\ mode = "monitor" /\ calls > 0
    /\ lastReload.outcome = "spawnfail" /\ lastReload.warned
    /\ Last.app = 1 /\ pc = "applying" /\ idx = 2

\* C5: the last replace_in_file wrote only if the text has an occurrence of
\* `from`, `from` differs from `to` and the replaced text differs from the text
\* read; with no occurrence, or equal tokens, the file was read, not written,
\* and keeps its content.
WriteOnlyOnChange ==
    (calls > 0 /\ Last.path # NoVal) =>
        /\ Wrote(Last) =>
              /\ replace(Last.before, Last.from, Last.to) # Last.before
              /\ Occurs(Last.from, Last.before)
              /\ Last.from # Last.to
        /\ (~Occurs(Last.from, Last.before) \/ Last.from = Last.to) =>
              (HasOp(Last, "read") /\ ~Wrote(Last))
        /\ ~Wrote(Last) => Last.after = Last.before

WriteOnlyOnChangeWitness ==
    /\ mode = "monitor" /\ linesRead = 2 /\ calls > 0
    /\ Last.res = "Ok" /\ HasOp(Last, "read") /\ ~Wrote(Last)
    /\ Last.from # Last.to

\* C6: in monitor mode a failed Configurator::apply ends the program with that
\* error, the monitor process neither awaited nor started again; once ended,
\* no line is read, no apply_all starts and no file changes.
MonitorStopsOnFailure ==
    /\ []((mode = "monitor" /\ calls > 0 /\ Last.res # "Ok") =>
            (pc = "terminated" /\ result = Last.res /\ active = {} /\ child = "running"))
    /\ [][pc = "terminated" =>
            UNCHANGED <<pc, result, line, theme, linesRead, fanouts, child, files,
                        trace, calls>>]_vars
    /\ [][(child' = "running" /\ child # "running") => pc = "start"]_vars

MonitorStopsOnFailureWitness ==
    /\ mode = "monitor" /\ pc = "terminated" /\ result = "FileWrite"
    /\ linesRead = 1 /\ linesRead < MaxLines

\* C7: a Configurator::apply called with neither SNAP_REAL_HOME nor HOME set
\* ends the program with EnvironmentMissing and performs no read, write or
\* reload; when it is the first app of apply_all, every file is as it was.
MissingEnvironment ==
    /\ []((calls > 0 /\ Last.res = "EnvironmentMissing") =>
            /\ Last.ops = <<>> /\ EventsOf(Last.app) = {}
            /\ pc = "terminated" /\ result = "EnvironmentMissing"
            /\ Last.app = 1 => (files = snap /\ trace = <<>>))
    /\ [][(calls' = calls + 1 /\ EnvUnset) =>
            /\ files' = files /\ trace' = trace
            /\ pc' = "terminated" /\ result' = "EnvironmentMissing"
            /\ idx = 1 => files' = snap]_vars

MissingEnvironmentWitness ==
    /\ pc = "terminated" /\ result = "EnvironmentMissing"
    /\ Len(config) >= 2 /\ Last.app = 1 /\ fanouts = 1

\* C8: infer_theme always yields Dark or Light, and Dark exactly for the texts
\* with an occurrence of "prefer-dark".
InferThemeTotal ==
    (mode = "infer" /\ theme # NoVal) =>
        /\ theme \in Themes
        /\ theme = "Dark" <=> Occurs(Marker, line)

InferThemeTotalWitness ==
    /\ mode = "infer" /\ theme = "Dark"
    /\ ~IsPrefix(Marker, line) /\ Len(line) > Len(Marker)

\* C9: in monitor mode every line read started one apply_all, and when the
\* monitor is back to listening that apply_all has read the file of every
\* configured app once.
NoDebouncing ==
    mode = "monitor" =>
        /\ fanouts = linesRead
        /\ (pc = "listening" /\ linesRead > 0) =>
              \A i \in 1..Len(config) :
                  Cardinality({n \in EventsOf(i) : trace[n].op = "read"}) = 1

NoDebouncingWitness ==
    /\ mode = "monitor" /\ pc = "listening"
    /\ linesRead = 2 /\ prevTheme = theme
    /\ Len(config) = 3 /\ Did(3, "read")

\* C10: at most one apply_all is in progress, it is the one of the last line
\* read, and a line is read only when none is in progress.
SerializedFanouts ==
    /\ [](/\ Cardinality(active) <= 1
          /\ active # {} => (pc = "applying" /\ active = {fanouts})
          /\ pc # "applying" => active = {})
    /\ [][linesRead' # linesRead => active = {}]_vars

SerializedFanoutsWitness ==
    /\ mode = "monitor" /\ linesRead = 2
    /\ pc = "applying" /\ active = {2} /\ idx = 2

\* C11 as stated: with an override the query never runs and apply_all gets the
\* override; without one the query runs once, a non-zero exit ends set_once
\* with no apply_all, no file operation and no reload, and in every other case
\* (here: whenever the query was started and did not exit non-zero) apply_all
\* is called with the normalized output.
OneShotAsStated ==
    (mode = "set" /\ pc # "start") =>
        /\ override # NoVal =>
              (queries = 0 /\ fanouts = 1 /\ theme = override)
        /\ override = NoVal =>
              /\ queries = 1
              /\ result = "QueryFailed" =>
                    (fanouts = 0 /\ calls = 0 /\ trace = <<>> /\ files = snap)
              /\ result \notin {"QueryFailed", "SubprocessSpawn"} =>
                    (fanouts = 1 /\ (theme = "Dark" <=> Occurs(Marker, line)))

\* C11 amended: the query also ends set_once with no apply_all when it cannot
\* be started or when its output is not UTF-8; apply_all is called with the
\* normalized output in the remaining case.
OneShot ==
    (mode = "set" /\ pc # "start") =>
        /\ override # NoVal =>
              (queries = 0 /\ fanouts = 1 /\ theme = override)
        /\ override = NoVal =>
              /\ queries = 1
              /\ result \in {"QueryFailed", "SubprocessSpawn", "Utf8Decode"} =>
                    /\ fanouts = 0 /\ calls = 0 /\ trace = <<>> /\ files = snap
                    /\ theme = NoVal /\ pc = "terminated"
              /\ result \notin {"QueryFailed", "SubprocessSpawn", "Utf8Decode"} =>
                    (fanouts = 1 /\ (theme = "Dark" <=> Occurs(Marker, line)))

OneShotWitness ==
    /\ mode = "set" /\ override = NoVal /\ pc = "terminated"
    /\ result = "QueryFailed" /\ queries = 1 /\ Len(config) = 3

\* the monitor ended by something else than the end of the stream
EndedEarly == result \in (ApplyErrors \cup {"SubprocessSpawn", "LineRead"})

\* C12 as stated, its final result: a monitor that ended with every fan-out
\* succeeded and no failed read has awaited the subprocess and returns success.
EndOfStreamSucceeds ==
    (mode = "monitor" /\ pc = "terminated" /\ ~EndedEarly) =>
        (result = "Ok" /\ child = "reaped")

\* C12 amended: a listening monitor eventually ends; when it ends by the end of
\* the stream no apply_all is in progress, and it returns success when the
\* subprocess was awaited and the error of child.wait() when that failed.
EndOfStreamTerminates ==
    /\ (mode = "monitor" /\ pc = "listening") ~> (pc = "terminated")
    /\ []((mode = "monitor" /\ pc = "terminated" /\ ~EndedEarly) =>
            /\ active = {}
            /\ \/ result = "Ok" /\ child = "reaped"
               \/ result = "Wait" /\ child = "running")

EndOfStreamTerminatesWitness ==
    /\ mode = "monitor" /\ pc = "terminated"
    /\ result = "Ok" /\ child = "reaped"
    /\ linesRead = 2 /\ calls > 0 /\ Len(config) = 3

\* C13: every Configurator::apply works on the file under the home the
\* environment gives at the time of the call, SNAP_REAL_HOME when it is set and
\* HOME otherwise: the call's path, its operations and the only file it may
\* change are under that home, whatever home an earlier call used.
HomePerApply ==
    [][calls' = calls + 1 =>
        LET want == IF env.SNAP_REAL_HOME # NoVal THEN env.SNAP_REAL_HOME ELSE env.HOME
            rec  == hist'[Len(hist')]
        IN  /\ want = NoVal => rec.path = NoVal
            /\ want # NoVal =>
                  /\ rec.path = <<want, config[rec.app].path>>
                  /\ rec.before = files[rec.path]
                  /\ \A n \in (Len(trace) + 1)..Len(trace') : trace'[n].path = rec.path
                  /\ \A fp \in FullPaths : fp # rec.path => files'[fp] = files[fp]]_vars

\* HOME alone was set for the first app; SNAP_REAL_HOME was then set, and the
\* next app of the same apply_all wrote the file under it
HomePerApplyWitness ==
    /\ envChanges = 1 /\ calls > 1 /\ LastInTrace
    /\ env.SNAP_REAL_HOME = "h1" /\ env.HOME = "h2"
    /\ trace[1].path[1] = "h2"
    /\ Last.path # NoVal /\ Last.path[1] = "h1" /\ Wrote(Last) /\ Last.res = "Ok"

\* C14: for an app whose light_token equals its dark_token and whose file can
\* be read, every Configurator::apply, to Dark or to Light, returns Ok, does not
\* write the file and leaves its content as it was.
EqualTokensNoOp ==
    (mode = "apply" /\ config[1].light_token = config[1].dark_token) =>
        \A n \in 1..Len(hist) :
            /\ hist[n].res = "Ok"
            /\ hist[n].ops = <<"read">>
            /\ hist[n].after = hist[n].before
            /\ files[hist[n].path] = hist[n].before

\* the equal token occurs in the file, and both themes have been applied
EqualTokensNoOpWitness ==
    /\ mode = "apply" /\ Len(hist) >= 2
    /\ config[1].light_token = config[1].dark_token
    /\ config[1].light_token # <<>>
    /\ contains(hist[1].before, config[1].light_token)
    /\ hist[1].theme = "Dark" /\ hist[2].theme = "Light"
    /\ hist[2].res = "Ok"

\* the operations of app j in the current apply_all, in the order they happened
OpsOf(j) ==
    LET RECURSIVE Take(_)
        Take(n) == IF n = 0 THEN <<>>
                   ELSE IF trace[n].app = j THEN Append(Take(n - 1), trace[n].op)
                   ELSE Take(n - 1)
    IN  Take(Len(trace))

\* what one Configurator::apply call can do, in order
OneAttempt ==
    {<<>>, <<"read">>, <<"read", "write">>, <<"read", "reload">>,
     <<"read", "write", "reload">>}

\* apply_all has returned Ok
FanoutSucceeded ==
    /\ fanouts > 0
    /\ \/ mode = "monitor" /\ pc = "listening"
       \/ mode = "set" /\ pc = "terminated" /\ result = "Ok"

OrderedTrace ==
    /\ \A m, n \in 1..Len(trace) : m < n => trace[m].app <= trace[n].app
    /\ \A j \in 1..Len(config) : OpsOf(j) \in OneAttempt
    /\ pc = "applying" =>
          /\ \A n \in 1..Len(trace) : trace[n].app < idx
          /\ \A j \in 1..(idx - 1) : OpsOf(j) # <<>>
    /\ FanoutSucceeded => \A j \in 1..Len(config) : OpsOf(j) # <<>>

\* C15: within one apply_all the apps are attempted in configuration order,
\* each at most once (a failed read, write or reload is not tried again), the
\* substitution and the reload of app i are over before the file of app i+1 is
\* read, and when apply_all succeeds every configured app was attempted exactly
\* once.
OrderedAttemptOnce ==
    /\ []OrderedTrace
    /\ [][calls' = calls + 1 =>
            /\ pc = "applying" /\ hist'[Len(hist')].app = idx
            /\ pc' = "applying" => idx' = idx + 1
            /\ pc' # "applying" =>
                  \/ idx = Len(config) /\ hist'[Len(hist')].res = "Ok"
                  \/ pc' = "terminated" /\ result' \in ApplyErrors]_vars

\* an apply_all over three apps succeeded, the first app with a write and a reload
OrderedAttemptOnceWitness ==
    /\ FanoutSucceeded /\ Len(config) = 3
    /\ OpsOf(1) = <<"read", "write", "reload">>
    /\ OpsOf(2) # <<>> /\ OpsOf(3) # <<>>
    /\ Len(trace) >= 5

\* C16: a Configurator::apply call runs the reload command exactly when the app
\* has a reload_cmd and the substitution returned Ok: never after a failed home
\* lookup, read or write, once, after the write if there was one, and also when
\* the substitution changed nothing and nothing was written.
ReloadOrdering ==
    (mode # "apply" /\ hist # <<>>) =>
        LET c == Last
            reloads == {n \in 1..Len(c.ops) : c.ops[n] = "reload"}
        IN  /\ (reloads # {}) <=>
                  (config[c.app].reload_cmd # NoVal /\ c.res \notin ApplyErrors)
            /\ reloads \subseteq {Len(c.ops)}
            /\ (lastReload.outcome # NoVal) <=> (reloads # {})
            /\ c.res \in ApplyErrors => lastReload.outcome = NoVal

\* the reload command was run although the file already had the theme and was
\* not written
ReloadOrderingWitness ==
    /\ mode # "apply" /\ hist # <<>>
    /\ Last.ops = <<"read", "reload">>
    /\ Last.after = Last.before
    /\ lastReload.outcome # NoVal
    /\ Last.res = "Ok"

\* the file of app j under the home of the environment
FileOf(j) == <<ResolveHome(env), config[j].path>>

\* the first apply_all of the monitor has returned Ok, for a config whose apps
\* have distinct tokens and whose files held, when it started, exactly one of
\* the two tokens of their app; the environment has not changed
FirstFanoutDone ==
    /\ mode = "monitor" /\ pc = "listening" /\ fanouts = 1
    /\ envChanges = 0 /\ ResolveHome(env) # NoVal
    /\ \A j \in 1..Len(config) :
          /\ config[j].light_token # config[j].dark_token
          /\ Occurs(config[j].light_token, snap[FileOf(j)])
               # Occurs(config[j].dark_token, snap[FileOf(j)])

\* C17: right after a fan-out of the monitor that succeeded, the file of every
\* app contains the token of the theme decoded from the last line read and no
\* occurrence of the other token. Stated for the first line read.
LastEventWins ==
    FirstFanoutDone =>
        \A j \in 1..Len(config) :
            LET new == IF theme = "Dark" THEN config[j].dark_token ELSE config[j].light_token
                old == IF theme = "Dark" THEN config[j].light_token ELSE config[j].dark_token
            IN  Occurs(new, files[FileOf(j)]) /\ ~Occurs(old, files[FileOf(j)])

\* C18: for distinct tokens and a file without the dark token, an apply(Dark)
\* that returns Ok followed by an apply(Light) that returns Ok leaves the file
\* with the content it had before the two calls; and the same for apply(Light)
\* then apply(Dark) on a file without the light token. Stated for non-empty
\* tokens, the ordinary case of the claim.
ThemeRoundTrip ==
    LET L == config[1].light_token
        D == config[1].dark_token
    IN  (mode = "apply" /\ L # D /\ L # <<>> /\ D # <<>>) =>
        \A n \in 1..(Len(hist) - 1) :
            (hist[n].res = "Ok" /\ hist[n+1].res = "Ok") =>
              /\ (hist[n].theme = "Dark" /\ hist[n+1].theme = "Light"
                  /\ ~Occurs(D, hist[n].before))
                 => hist[n+1].after = hist[n].before
              /\ (hist[n].theme = "Light" /\ hist[n+1].theme = "Dark"
                  /\ ~Occurs(L, hist[n].before))
                 => hist[n+1].after = hist[n].before

====
